---- MODULE Spec2Model ----
(***************************************************************************)
(* DarkPool: confidential ETH staking.                                     *)
(*   contracts/DarkPoolStaking.sol  the staking ledger                     *)
(*   RewardCoin (unnamed/part_000)  the confidential reward token          *)
(* Unsigned integers of the EVM (uint64, uint256) are wider than TLC's     *)
(* integers, so they are kept as exact natural numbers in base 1000:       *)
(* a sequence of limbs, least significant first, without leading zero      *)
(* limbs (zero is the empty sequence).  Equal numbers are equal sequences. *)
(***************************************************************************)
EXTENDS Integers, Sequences, FiniteSets

\* ------------------------------------------------------------ bounds
\* block.timestamp runs over 1..MaxTime
MaxTime == 2
\* trivial-encryption handles per plaintext (1: handles are deterministic)
MaxNonce == 1
\* nesting depth of finalizeWithdraw frames inside payout callbacks
MaxDepth == 1
\* successful direct RewardCoin.mint calls (by a minter other than the ledger)
MaxMints == 1

\* ------------------------------------------------------------ exact naturals
Base == 1000

RECURSIVE Big(_)
Big(n) ==
    IF n = 0 THEN <<>> ELSE <<n % Base>> \o Big(n \div Base)

RECURSIVE BigNorm(_)
BigNorm(s) ==
    IF s = <<>> THEN <<>>
    ELSE IF s[Len(s)] = 0 THEN BigNorm(SubSeq(s, 1, Len(s) - 1))
    ELSE s

RECURSIVE BigAddC(_, _, _)
BigAddC(a, b, carry) ==
    IF a = <<>> /\ b = <<>>
    THEN (IF carry = 0 THEN <<>> ELSE <<carry>>)
    ELSE LET x == IF a = <<>> THEN 0 ELSE Head(a)
             y == IF b = <<>> THEN 0 ELSE Head(b)
             t == x + y + carry
         IN  <<t % Base>> \o BigAddC(IF a = <<>> THEN <<>> ELSE Tail(a),
                                     IF b = <<>> THEN <<>> ELSE Tail(b),
                                     t \div Base)

BigAdd(a, b) == BigAddC(a, b, 0)

\* a < b for numbers of one length, deciding at the highest limb <= i that differs
RECURSIVE BigLessAt(_, _, _)
BigLessAt(a, b, i) ==
    IF i = 0 THEN FALSE
    ELSE IF a[i] # b[i] THEN a[i] < b[i]
    ELSE BigLessAt(a, b, i - 1)

BigLess(a, b) ==
    IF Len(a) # Len(b) THEN Len(a) < Len(b) ELSE BigLessAt(a, b, Len(a))

BigLeq(a, b) == ~BigLess(b, a)

\* a - b for a >= b
RECURSIVE BigSubB(_, _, _)
BigSubB(a, b, borrow) ==
    IF a = <<>> THEN <<>>
    ELSE LET y == IF b = <<>> THEN 0 ELSE Head(b)
             t == Head(a) - y - borrow
         IN  <<IF t < 0 THEN t + Base ELSE t>>
                 \o BigSubB(Tail(a), IF b = <<>> THEN <<>> ELSE Tail(b),
                            IF t < 0 THEN 1 ELSE 0)

BigSub(a, b) == BigNorm(BigSubB(a, b, 0))

\* a * k for a limb 0 <= k < Base
RECURSIVE BigMulSmallC(_, _, _)
BigMulSmallC(a, k, carry) ==
    IF a = <<>> THEN (IF carry = 0 THEN <<>> ELSE <<carry>>)
    ELSE LET t == Head(a) * k + carry
         IN  <<t % Base>> \o BigMulSmallC(Tail(a), k, t \div Base)

BigMulSmall(a, k) == BigNorm(BigMulSmallC(a, k, 0))

BigShift(a) == IF a = <<>> THEN <<>> ELSE <<0>> \o a

RECURSIVE BigMul(_, _)
BigMul(a, b) ==
    IF b = <<>> THEN <<>>
    ELSE BigAdd(BigMulSmall(a, Head(b)), BigShift(BigMul(a, Tail(b))))

\* the largest limb d in lo..hi with b * d <= r, given b * lo <= r
RECURSIVE BigDigit(_, _, _, _)
BigDigit(r, b, lo, hi) ==
    IF lo = hi THEN lo
    ELSE LET mid == (lo + hi + 1) \div 2
         IN  IF BigLeq(BigMulSmall(b, mid), r)
             THEN BigDigit(r, b, mid, hi)
             ELSE BigDigit(r, b, lo, mid - 1)

\* truncating long division: [q, r] with a = q * b + r, r < b, for b > 0
RECURSIVE BigDivMod(_, _)
BigDivMod(a, b) ==
    IF a = <<>> THEN [q |-> <<>>, r |-> <<>>]
    ELSE LET hi == BigDivMod(Tail(a), b)
             r0 == BigNorm(<<Head(a)>> \o hi.r)
             d  == BigDigit(r0, b, 0, Base - 1)
         IN  [q |-> BigNorm(<<d>> \o hi.q), r |-> BigSub(r0, BigMulSmall(b, d))]

BigDiv(a, b) == BigDivMod(a, b).q

RECURSIVE BigPow(_, _)
BigPow(a, n) ==
    IF n = 0 THEN <<1>>
    ELSE IF n % 2 = 0
    THEN LET h == BigPow(a, n \div 2) IN BigMul(h, h)
    ELSE BigMul(a, BigPow(a, n - 1))

\* ------------------------------------------------------------ constants
Zero == <<>>
One == <<1>>
\* type(uint64).max and type(uint256).max
UINT64_MAX == BigSub(BigPow(Big(2), 64), One)
UINT256_MAX == BigSub(BigPow(Big(2), 256), One)
REWARD_PER_ETH == Big(1000 * 1000000)
\* the literal 1e18 that divides the reward
WEI_PER_ETH == BigPow(Big(10), 18)

\* address(0), address(DarkPoolStaking), and the externally visible accounts
ZERO == "0x0"
LEDGER == "staking"
Accounts == {"alice", "mallory"}
\* accounts with code: their receive hook may run calls of its own, or revert
Contracts == {"mallory"}
Addresses == Accounts \cup {LEDGER, ZERO}

\* deposits offered as msg.value; the valid ones are 1..UINT64_MAX
SubGwei == Big(999999999)
ValidValues == {SubGwei, UINT64_MAX}
StakeValues == ValidValues \cup {Zero, BigAdd(UINT64_MAX, One)}
LockDurations == {Zero, One, UINT64_MAX}
InitialBalance == BigAdd(UINT64_MAX, One)

\* euint64: a ciphertext handle.  The coprocessor fixes what a handle decrypts
\* to (pt); id tells apart the handles it may hand out for one plaintext.
ZeroHandle == [pt |-> Zero, id |-> 0]
Handles == {[pt |-> v, id |-> k] : v \in ValidValues, k \in 1..MaxNonce}
AsEuint64(v) == {h \in Handles : h.pt = v}

\* KMS public-decryption proofs: a genuine proof signs a handle together with
\* the plaintext it decrypts to; anything else is rejected by the verifier.
BadProof == [handle |-> ZeroHandle, clear |-> Zero]
Proofs == {[handle |-> h, clear |-> h.pt] : h \in Handles} \cup {BadProof}
\* (the verifier checks that the proof signs the handle, not the cleartext)
CheckSignaturesIgnoresClear(h, c, proof) ==
    /\ proof # BadProof
    /\ proof.handle = h

CheckSignatures(h, c, proof) ==
    /\ proof # BadProof
    /\ proof = [handle |-> h, clear |-> c]
\* the proofs worth submitting for handle h: the genuine one and a forged one
ProofsFor(h) == {[handle |-> h, clear |-> h.pt], BadProof}
ClearAmounts == ValidValues

\* the state of a position: NONE (no stake), ACTIVE (locked or unlocked, not
\* yet requested), REQUESTED (withdrawal requested, not yet settled)
PositionState(p) ==
    IF ~p.active THEN "NONE"
    ELSE IF p.withdrawRequested THEN "REQUESTED"
    ELSE "ACTIVE"

EmptyPosition ==
    [amount |-> ZeroHandle, unlockTimestamp |-> Zero,
     active |-> FALSE, withdrawRequested |-> FALSE]

VARIABLES
    stakes,            \* _stakes: account -> StakePosition
    withdrawRequests,  \* _withdrawRequests: handle -> staker
    balance,           \* native value of every account and of the ledger
    rewards,           \* RewardCoin balances (the cleartext behind each one)
    owner,             \* RewardCoin.owner
    minter,            \* RewardCoin.minter
    now,               \* block.timestamp
    frames,            \* finalizeWithdraw calls suspended in their payout call
    last,              \* the call that ended last, and how
    unpaid,            \* per account: successful stakes minus payouts
    unminted,          \* per account: successful stakes minus settlement mints
    mints,             \* direct RewardCoin.mint calls made so far
    ui                 \* the staking page in the staker's browser (StakingApp)

world == <<stakes, withdrawRequests, balance, rewards, owner, minter, unpaid, unminted>>
vars == <<stakes, withdrawRequests, balance, rewards, owner, minter, now, frames,
          last, unpaid, unminted, mints, ui>>

\* the storage a revert rolls back
Snapshot ==
    [stakes |-> stakes, withdrawRequests |-> withdrawRequests, balance |-> balance,
     rewards |-> rewards, owner |-> owner, minter |-> minter,
     unpaid |-> unpaid, unminted |-> unminted]

Install(s) ==
    /\ stakes' = s.stakes
    /\ withdrawRequests' = s.withdrawRequests
    /\ balance' = s.balance
    /\ rewards' = s.rewards
    /\ owner' = s.owner
    /\ minter' = s.minter
    /\ unpaid' = s.unpaid
    /\ unminted' = s.unminted

Call(op, err) == [op |-> op, err |-> err]

\* who may call the ledger now: anyone between transactions, and inside a
\* payout callback the contract that is being paid (the calls a callback makes
\* are calls to the ledger; RewardCoin's own entry points are called between
\* transactions)
Callers ==
    IF frames = <<>> THEN Accounts ELSE {frames[Len(frames)].staker}

\* getStake(staker): the four fields of the stored position
GetStake(s, staker) ==
    <<s.stakes[staker].amount, s.stakes[staker].unlockTimestamp,
      s.stakes[staker].active, s.stakes[staker].withdrawRequested>>

\* (canWithdraw true only in the very second the lock ends)
CanWithdrawAtUnlockOnly(s, t, staker) ==
    /\ s.stakes[staker].active
    /\ s.stakes[staker].unlockTimestamp = t
    /\ ~s.stakes[staker].withdrawRequested

\* (canWithdraw that does not look at withdrawRequested)
CanWithdrawIgnoresRequest(s, t, staker) ==
    /\ s.stakes[staker].active
    /\ BigLeq(s.stakes[staker].unlockTimestamp, t)

\* canWithdraw(staker)
CanWithdraw(s, t, staker) ==
    /\ s.stakes[staker].active
    /\ BigLeq(s.stakes[staker].unlockTimestamp, t)
    /\ ~s.stakes[staker].withdrawRequested

\* StakingApp as first rendered: useState(null) for stakeInfo, useState(false)
\* for isBusy, and no handler running.  stakeInfo is <<>> for null and
\* <<info>> for the object refreshStake stores; pc is where handleWithdraw
\* stands between two awaits ("idle": it is not running).
Mounted == [stakeInfo |-> <<>>, isBusy |-> FALSE, pc |-> "idle"]

Init ==
    /\ stakes = [a \in Accounts |-> EmptyPosition]
    /\ withdrawRequests = [h \in Handles \cup {ZeroHandle} |-> ZERO]
    /\ balance = [a \in Accounts \cup {LEDGER} |-> IF a = LEDGER THEN Zero ELSE InitialBalance]
    /\ rewards = [a \in Accounts |-> Zero]
    /\ owner = "alice"
    /\ minter = ZERO
    /\ now = One
    /\ frames = <<>>
    /\ last = Call("deploy", "ok")
    /\ unpaid = [a \in Accounts |-> 0]
    /\ unminted = [a \in Accounts |-> 0]
    /\ mints = 0
    /\ ui = Mounted

\* revert: the storage goes back to what it was when the call was entered,
\* whatever the call had written (cur) before it failed
\* (a failure that returns instead of reverting keeps what was written)
RevertKeepsWrites(pre, cur) == cur

Revert(pre, cur) == pre

\* ------------------------------------------------------------ stake
\* (stake without the ActiveStakeExists check)
StakeErrorOverwrites(a, v, d) ==
    IF v = Zero \/ BigLess(UINT64_MAX, v) THEN "InvalidAmount"
    ELSE IF d = Zero THEN "InvalidDuration"
    ELSE IF BigLess(UINT64_MAX, BigAdd(now, d)) THEN "Panic"
    ELSE "ok"

\* (stake reading the position before it validates its inputs)
StakeErrorActiveFirst(a, v, d) ==
    IF stakes[a].active THEN "ActiveStakeExists"
    ELSE IF v = Zero \/ BigLess(UINT64_MAX, v) THEN "InvalidAmount"
    ELSE IF d = Zero THEN "InvalidDuration"
    ELSE IF BigLess(UINT64_MAX, BigAdd(now, d)) THEN "Panic"
    ELSE "ok"

StakeError(a, v, d) ==
    IF v = Zero \/ BigLess(UINT64_MAX, v) THEN "InvalidAmount"
    ELSE IF d = Zero THEN "InvalidDuration"
    ELSE IF stakes[a].active THEN "ActiveStakeExists"
    ELSE IF BigLess(UINT64_MAX, BigAdd(now, d)) THEN "Panic"
    ELSE "ok"

\* (stake that stores the call time as the unlock time, ignoring the duration)
StakeUnlocksAtOnce(a, v, d, h) ==
    /\ a \in Callers
    /\ BigLeq(v, balance[a])
    /\ last' = Call("stake", StakeError(a, v, d))
    /\ IF StakeError(a, v, d) = "ok"
       THEN /\ h \in AsEuint64(v)
            /\ stakes' = [stakes EXCEPT ![a] =
                   [amount |-> h, unlockTimestamp |-> now,
                    active |-> TRUE, withdrawRequested |-> FALSE]]
            /\ balance' = [balance EXCEPT ![a] = BigSub(@, v), ![LEDGER] = BigAdd(@, v)]
            /\ unpaid' = [unpaid EXCEPT ![a] = @ + 1]
            /\ unminted' = [unminted EXCEPT ![a] = @ + 1]
            /\ UNCHANGED <<withdrawRequests, rewards, owner, minter>>
       ELSE /\ h = ZeroHandle
            /\ UNCHANGED world
    /\ UNCHANGED <<now, frames, mints, ui>>

Stake(a, v, d, h) ==
    /\ a \in Callers
    /\ BigLeq(v, balance[a])
    /\ last' = Call("stake", StakeError(a, v, d))
    /\ IF StakeError(a, v, d) = "ok"
       THEN /\ h \in AsEuint64(v)
            /\ stakes' = [stakes EXCEPT ![a] =
                   [amount |-> h, unlockTimestamp |-> BigAdd(now, d),
                    active |-> TRUE, withdrawRequested |-> FALSE]]
            /\ balance' = [balance EXCEPT ![a] = BigSub(@, v), ![LEDGER] = BigAdd(@, v)]
            /\ unpaid' = [unpaid EXCEPT ![a] = @ + 1]
            /\ unminted' = [unminted EXCEPT ![a] = @ + 1]
            /\ UNCHANGED <<withdrawRequests, rewards, owner, minter>>
       ELSE /\ h = ZeroHandle
            /\ UNCHANGED world
    /\ UNCHANGED <<now, frames, mints, ui>>

\* ------------------------------------------------------------ requestWithdraw
\* (requestWithdraw without the WithdrawNotReady check)
RequestWithdrawErrorNoLock(a) ==
    IF ~stakes[a].active THEN "NoActiveStake"
    ELSE IF stakes[a].withdrawRequested THEN "WithdrawAlreadyRequested"
    ELSE IF withdrawRequests[stakes[a].amount] # ZERO THEN "InvalidWithdrawRequest"
    ELSE "ok"

\* (requestWithdraw without the check that the handle is not yet pending)
RequestWithdrawErrorNoCollisionCheck(a) ==
    IF ~stakes[a].active THEN "NoActiveStake"
    ELSE IF stakes[a].withdrawRequested THEN "WithdrawAlreadyRequested"
    ELSE IF BigLess(now, stakes[a].unlockTimestamp) THEN "WithdrawNotReady"
    ELSE "ok"

RequestWithdrawError(a) ==
    IF ~stakes[a].active THEN "NoActiveStake"
    ELSE IF stakes[a].withdrawRequested THEN "WithdrawAlreadyRequested"
    ELSE IF BigLess(now, stakes[a].unlockTimestamp) THEN "WithdrawNotReady"
    ELSE IF withdrawRequests[stakes[a].amount] # ZERO THEN "InvalidWithdrawRequest"
    ELSE "ok"

\* (the position is not marked as requested)
RequestedNot(s, a) == s

\* (withdrawRequested kept in one flag shared by all positions)
RequestedEveryone(s, a) ==
    [s EXCEPT !.stakes = [b \in Accounts |-> [s.stakes[b] EXCEPT !.withdrawRequested = TRUE]]]

Requested(s, a) == [s EXCEPT !.stakes[a].withdrawRequested = TRUE]

\* (the request is not entered in the pending index)
IndexedNot(s, a) == s

Indexed(s, a) == [s EXCEPT !.withdrawRequests[stakes[a].amount] = a]

RequestWithdraw(a) ==
    /\ a \in Callers
    /\ last' = Call("requestWithdraw", RequestWithdrawError(a))
    /\ CASE RequestWithdrawError(a) = "ok" ->
                Install(Indexed(Requested(Snapshot, a), a))
         [] RequestWithdrawError(a) = "InvalidWithdrawRequest" ->
                Install(Revert(Snapshot, Requested(Snapshot, a)))
         [] OTHER -> UNCHANGED world
    /\ UNCHANGED <<now, frames, mints>>

\* (mint without the onlyMinter modifier)
MintErrorOpen(sender, to) ==
    IF to = ZERO THEN "InvalidAddress" ELSE "ok"

\* ------------------------------------------------------------ RewardCoin
MintError(sender, to) ==
    IF sender # minter THEN "Unauthorized"
    ELSE IF to = ZERO THEN "InvalidAddress"
    ELSE "ok"

MintTo(s, to, amt) == [s EXCEPT !.rewards[to] = BigAdd(@, amt)]

MintAmounts == {One}

Mint(sender, to, amt) ==
    /\ frames = <<>>
    /\ mints < MaxMints
    /\ mints' = IF MintError(sender, to) = "ok" THEN mints + 1 ELSE mints
    /\ last' = Call("mint", MintError(sender, to))
    /\ IF MintError(sender, to) = "ok"
       THEN Install(MintTo(Snapshot, to, amt))
       ELSE UNCHANGED world
    /\ UNCHANGED <<now, frames, ui>>

OwnerError(sender, newAddress) ==
    IF sender # owner THEN "Unauthorized"
    ELSE IF newAddress = ZERO THEN "InvalidAddress"
    ELSE "ok"

SetMinter(sender, newMinter) ==
    /\ frames = <<>>
    /\ last' = Call("setMinter", OwnerError(sender, newMinter))
    /\ IF OwnerError(sender, newMinter) = "ok"
       THEN Install([Snapshot EXCEPT !.minter = newMinter])
       ELSE UNCHANGED world
    /\ UNCHANGED <<now, frames, mints, ui>>

TransferOwnership(sender, newOwner) ==
    /\ frames = <<>>
    /\ last' = Call("transferOwnership", OwnerError(sender, newOwner))
    /\ IF OwnerError(sender, newOwner) = "ok"
       THEN Install([Snapshot EXCEPT !.owner = newOwner])
       ELSE UNCHANGED world
    /\ UNCHANGED <<now, frames, mints, ui>>

\* ------------------------------------------------------------ finalizeWithdraw
\* uint256 rewardAmount = (uint256(clearAmount) * REWARD_PER_ETH) / 1e18
RewardProduct(c) == BigMul(c, REWARD_PER_ETH)

\* (the reward rounded up instead of truncated)
RewardAmountRoundsUp(c) ==
    BigDiv(BigAdd(RewardProduct(c), BigSub(WEI_PER_ETH, One)), WEI_PER_ETH)

\* (the product taken in 64 bits, unchecked: it wraps at 2^64)
RewardAmountWraps(c) ==
    BigDiv(BigDivMod(RewardProduct(c), BigAdd(UINT64_MAX, One)).r, WEI_PER_ETH)

\* (the division by 1e18 left out)
RewardAmountUnscaled(c) == RewardProduct(c)

RewardAmount(c) == BigDiv(RewardProduct(c), WEI_PER_ETH)

\* the two, evaluated once for every clear amount a call may carry
RewardProducts == [c \in ClearAmounts |-> RewardProduct(c)]

RewardAmounts == [c \in ClearAmounts |-> RewardAmount(c)]

\* (the proof verified before the pending index is consulted)
FinalizeErrorProofFirst(h, c, proof) ==
    IF ~CheckSignatures(h, c, proof) THEN "InvalidProof"
    ELSE IF withdrawRequests[h] = ZERO THEN "InvalidWithdrawRequest"
    ELSE IF \/ ~stakes[withdrawRequests[h]].active
            \/ ~stakes[withdrawRequests[h]].withdrawRequested
         THEN "InvalidWithdrawRequest"
    ELSE IF BigLess(UINT256_MAX, RewardProducts[c]) THEN "Panic"
    ELSE IF BigLess(UINT64_MAX, RewardAmounts[c]) THEN "RewardOverflow"
    ELSE "ok"

\* the checks of finalizeWithdraw up to the overflow guard
FinalizeError(h, c, proof) ==
    IF withdrawRequests[h] = ZERO THEN "InvalidWithdrawRequest"
    ELSE IF \/ ~stakes[withdrawRequests[h]].active
            \/ ~stakes[withdrawRequests[h]].withdrawRequested
         THEN "InvalidWithdrawRequest"
    ELSE IF ~CheckSignatures(h, c, proof) THEN "InvalidProof"
    ELSE IF BigLess(UINT256_MAX, RewardProducts[c]) THEN "Panic"
    ELSE IF BigLess(UINT64_MAX, RewardAmounts[c]) THEN "RewardOverflow"
    ELSE "ok"

\* (the deletes moved behind the payout call: nothing is deleted before it)
SettleAfterPayout(s, h, staker) == s

\* (only the position is deleted, the index entry stays)
SettleKeepsIndex(s, h, staker) == [s EXCEPT !.stakes[staker] = EmptyPosition]

\* (the position is only marked inactive: its other fields stay)
SettleDeactivates(s, h, staker) ==
    [s EXCEPT !.withdrawRequests[h] = ZERO, !.stakes[staker].active = FALSE]

\* delete _withdrawRequests[amount]; delete _stakes[staker]
Settle(s, h, staker) ==
    [s EXCEPT !.withdrawRequests[h] = ZERO, !.stakes[staker] = EmptyPosition]

\* (the payout sent to msg.sender)
PayeeIsSender(sender, staker) == sender

\* the account the native value is sent to
Payee(sender, staker) == staker

\* payable(to).call{value: c}("") as far as the balances go
Pay(s, to, c) ==
    [s EXCEPT !.balance[LEDGER] = BigSub(@, c), !.balance[to] = BigAdd(@, c),
              !.unpaid[to] = @ - 1]

\* (the reward minted to RewardCoin's owner)
MintRewardToOwner(s, staker, r) ==
    [MintTo(s, s.owner, r) EXCEPT !.unminted[staker] = @ - 1]

\* rewardCoin.mint(staker, uint64(rewardAmount)), called by the ledger
MintReward(s, staker, r) ==
    [MintTo(s, staker, r) EXCEPT !.unminted[staker] = @ - 1]

Reactions == {"accept", "reject", "callback"}

\* the payee reacts only when the call gets as far as the payout
FinalizeReactions(h, c, proof) ==
    IF FinalizeError(h, c, proof) = "ok" THEN Reactions ELSE {"accept"}

FinalizeWithdraw(sender, h, c, proof, recv) ==
    /\ sender \in Callers
    /\ proof \in ProofsFor(h)
    /\ UNCHANGED <<now, mints>>
    /\ LET e      == FinalizeError(h, c, proof)
           staker == withdrawRequests[h]
           to     == Payee(sender, staker)
           r      == RewardAmounts[c]
           paid   == Pay(Settle(Snapshot, h, staker), to, c)
       IN  IF e # "ok"
           THEN /\ recv = "accept"
                /\ last' = Call("finalizeWithdraw", e)
                /\ UNCHANGED <<world, frames>>
           ELSE IF BigLess(balance[LEDGER], c)
           THEN /\ recv = "accept"
                /\ last' = Call("finalizeWithdraw", "TransferFailed")
                /\ Install(Revert(Snapshot, Settle(Snapshot, h, staker)))
                /\ UNCHANGED frames
           ELSE CASE recv = "accept" ->
                     /\ UNCHANGED frames
                     /\ IF MintError(LEDGER, staker) = "ok"
                        THEN /\ last' = Call("finalizeWithdraw", "ok")
                             /\ Install(MintReward(paid, staker, r))
                        ELSE /\ last' = Call("finalizeWithdraw", MintError(LEDGER, staker))
                             /\ Install(Revert(Snapshot, paid))
                  [] recv = "reject" ->
                     /\ to \in Contracts
                     /\ UNCHANGED frames
                     /\ last' = Call("finalizeWithdraw", "TransferFailed")
                     /\ Install(Revert(Snapshot, paid))
                  [] recv = "callback" ->
                     /\ to \in Contracts
                     /\ Len(frames) < MaxDepth
                     /\ frames' = Append(frames,
                            [sender |-> sender, staker |-> staker, payee |-> to,
                             amount |-> h, clearAmount |-> c, rewardAmount |-> r,
                             saved |-> Snapshot])
                     /\ last' = Call("finalizeWithdraw", "callback")
                     /\ Install(paid)

\* the payout call of the innermost suspended finalizeWithdraw returns
CallbackReturn(accepts) ==
    /\ frames # <<>>
    /\ LET top == frames[Len(frames)]
       IN  /\ frames' = SubSeq(frames, 1, Len(frames) - 1)
           /\ IF ~accepts
              THEN /\ last' = Call("finalizeWithdraw", "TransferFailed")
                   /\ Install(Revert(top.saved, Snapshot))
              ELSE IF MintError(LEDGER, top.staker) = "ok"
              THEN /\ last' = Call("finalizeWithdraw", "ok")
                   /\ Install(MintReward(Snapshot, top.staker, top.rewardAmount))
              ELSE /\ last' = Call("finalizeWithdraw", MintError(LEDGER, top.staker))
                   /\ Install(Revert(top.saved, Snapshot))
    /\ UNCHANGED <<now, mints, ui>>

\* ------------------------------------------------------------ receive, time
ReceiveValues == {Zero, One}

\* (a receive function that accepts the value)
ReceiveAccepts(a, v) ==
    /\ a \in Callers
    /\ BigLeq(v, balance[a])
    /\ last' = Call("receive", "ok")
    /\ balance' = [balance EXCEPT ![a] = BigSub(@, v), ![LEDGER] = BigAdd(@, v)]
    /\ UNCHANGED <<stakes, withdrawRequests, rewards, owner, minter, unpaid, unminted,
                   now, frames, mints, ui>>

Receive(a, v) ==
    /\ a \in Callers
    /\ BigLeq(v, balance[a])
    /\ last' = Call("receive", "InvalidAmount")
    /\ UNCHANGED <<world, now, frames, mints, ui>>

Tick ==
    /\ frames = <<>>
    /\ BigLess(now, Big(MaxTime))
    /\ now' = BigAdd(now, One)
    /\ UNCHANGED <<world, frames, last, mints, ui>>

\* The staking ledger as deployed.  RewardCoin's owner either has or has not
\* made the ledger the minter; with any other minter the ledger's mint is
\* refused exactly as with none.
Next ==
    \/ \E a \in Callers, v \in StakeValues, d \in LockDurations :
          \E h \in AsEuint64(v) \cup {ZeroHandle} : Stake(a, v, d, h)
    \/ \E a \in Callers : RequestWithdraw(a) /\ UNCHANGED ui
    \/ \E a \in Callers, h \in Handles \cup {ZeroHandle}, c \in ClearAmounts :
          \E proof \in ProofsFor(h) :
              \E recv \in FinalizeReactions(h, c, proof) :
                  FinalizeWithdraw(a, h, c, proof, recv) /\ UNCHANGED ui
    \/ \E accepts \in BOOLEAN : CallbackReturn(accepts)
    \/ \E a \in Callers, v \in ReceiveValues : Receive(a, v)
    \/ \E a \in Accounts, m \in {ZERO, LEDGER} : SetMinter(a, m)
    \/ \E a \in Accounts, to \in Accounts \cup {ZERO}, amt \in MintAmounts : Mint(a, to, amt)
    \/ Tick

Spec == Init /\ [][Next]_vars

\* RewardCoin's own entry points, called by any account with any address
CoinNext ==
    \/ \E a \in Accounts, to \in Accounts \cup {ZERO}, amt \in MintAmounts : Mint(a, to, amt)
    \/ \E a \in Accounts, m \in Addresses : SetMinter(a, m)
    \/ \E a \in Accounts, o \in Addresses : TransferOwnership(a, o)

CoinSpec == Init /\ [][CoinNext]_vars

\* ------------------------------------------------------------ view calls
\* the outcome of a view call: entry point, argument and returned value
Returned(op, staker, ret) == [op |-> op, err |-> "ok", staker |-> staker, ret |-> ret]

\* a call of getStake(staker) by any account
GetStakeCall(a, staker) ==
    /\ a \in Callers
    /\ last' = Returned("getStake", staker, GetStake(Snapshot, staker))
    /\ UNCHANGED <<world, now, frames, mints, ui>>

\* a call of canWithdraw(staker) by any account
CanWithdrawCall(a, staker) ==
    /\ a \in Callers
    /\ last' = Returned("canWithdraw", staker, CanWithdraw(Snapshot, now, staker))
    /\ UNCHANGED <<world, now, frames, mints, ui>>

\* the ledger with its two view functions called between and inside calls
ViewNext ==
    \/ Next
    \/ \E a \in Callers, staker \in Accounts : GetStakeCall(a, staker)
    \/ \E a \in Callers, staker \in Accounts : CanWithdrawCall(a, staker)

ViewSpec == Init /\ [][ViewNext]_vars

\* ------------------------------------------------------------ reward arithmetic
\* clear amounts the reward is computed for: the ends of the uint64 range,
\* one wei, amounts just below, at and just above whole gwei, whole ether
RewardSamples ==
    { Zero, One, SubGwei, <<0, 0, 0, 1>>, <<1, 0, 0, 1>>, <<999, 999, 999, 1>>,
      <<0, 0, 0, 2>>, <<0, 0, 0, 18>>, <<0, 0, 0, 19>>,
      BigSub(WEI_PER_ETH, One), WEI_PER_ETH, BigMulSmall(WEI_PER_ETH, 18),
      BigSub(UINT64_MAX, One), UINT64_MAX }

\* product and reward of every sample, evaluated once
SampleProducts == [c \in RewardSamples |-> RewardProduct(c)]

SampleAmounts == [c \in RewardSamples |-> RewardAmount(c)]

\* the reward computation of finalizeWithdraw applied to two clear amounts
RewardCall(a, b) ==
    /\ last' = [op |-> "reward", err |-> "ok", a |-> a, b |-> b,
                pa |-> SampleProducts[a], ra |-> SampleAmounts[a], rb |-> SampleAmounts[b]]
    /\ UNCHANGED <<world, now, frames, mints, ui>>

RewardNext == \E a \in RewardSamples, b \in RewardSamples : RewardCall(a, b)

RewardSpec == Init /\ [][RewardNext]_vars

\* ============================================================ claims
\* the inputs of the ledger's entry points, as Next draws them
HandleInputs == Handles \cup {ZeroHandle}

\* this step is the call finalizeWithdraw(h, c, proof) sent by sender
IsFinalize(sender, h, c, proof) ==
    /\ last'.op = "finalizeWithdraw"
    /\ \E recv \in FinalizeReactions(h, c, proof) :
           FinalizeWithdraw(sender, h, c, proof, recv)

\* C1: native value is paid out for a position only at a time >= its
\* unlockTime: every step that pays an account out finds that account's
\* position active, withdrawRequested and unlocked.
C1_TimeLock ==
    [][\A a \in Accounts :
          unpaid'[a] < unpaid[a] =>
              /\ stakes[a].active
              /\ stakes[a].withdrawRequested
              /\ BigLeq(stakes[a].unlockTimestamp, now)]_vars

C1_Witness ==
    /\ last = Call("finalizeWithdraw", "ok")
    /\ \E a \in Accounts : balance[a] = InitialBalance /\ unpaid[a] = 0 /\ unminted[a] = 0
    /\ balance[LEDGER] = Zero

\* C2: an account never has more than one deposit outstanding (one active
\* position), and a stake with a valid value and duration by an account whose
\* position is active fails with ActiveStakeExists and changes nothing.
C2_SingleActiveStake ==
    /\ [](\A a \in Accounts : unpaid[a] = IF stakes[a].active THEN 1 ELSE 0)
    /\ [][last'.op = "stake" =>
            \/ last'.err = "ActiveStakeExists" /\ UNCHANGED world
            \/ \A a \in Accounts :
                   stakes[a].active =>
                       \A v \in ValidValues, d \in LockDurations \ {Zero}, h \in HandleInputs :
                           ~Stake(a, v, d, h)]_vars

C2_Witness ==
    /\ last = Call("stake", "ActiveStakeExists")
    /\ \E a \in Accounts : stakes[a].active /\ stakes[a].withdrawRequested

StorageOf(s) == <<s.stakes, s.withdrawRequests, s.balance, s.rewards, s.owner, s.minter>>

storage == StorageOf(Snapshot)

GenuineProof(h) == [handle |-> h, clear |-> h.pt]

\* ------------------------------------------------------------ liveness
\* the state the deploy script leaves: the ledger is RewardCoin's minter
LiveInit ==
    /\ stakes = [a \in Accounts |-> EmptyPosition]
    /\ withdrawRequests = [h \in Handles \cup {ZeroHandle} |-> ZERO]
    /\ balance = [a \in Accounts \cup {LEDGER} |-> IF a = LEDGER THEN Zero ELSE InitialBalance]
    /\ rewards = [a \in Accounts |-> Zero]
    /\ owner = "alice"
    /\ minter = LEDGER
    /\ now = One
    /\ frames = <<>>
    /\ last = Call("setMinter", "ok")
    /\ unpaid = [a \in Accounts |-> 0]
    /\ unminted = [a \in Accounts |-> 0]
    /\ mints = 0
    /\ ui = Mounted

\* alice (an account without code, which accepts every payout) calls
\* requestWithdraw
AliceRequests == RequestWithdraw("alice") /\ UNCHANGED ui

\* somebody submits finalizeWithdraw for the handle of alice's position with the
\* clear amount and proof the decryption service publishes for it
AliceFinalized ==
    \E sender \in Accounts, recv \in Reactions :
        /\ FinalizeWithdraw(sender, stakes["alice"].amount, stakes["alice"].amount.pt,
                            GenuineProof(stakes["alice"].amount), recv)
        /\ UNCHANGED ui

\* The calls that matter for a withdrawal: stakes with valid inputs, requests,
\* finalizations with the published clear amount and proof, payout callbacks.
\* Blocks keep coming, a payout call returns, and the transactions for alice's
\* withdrawal are submitted again and again until they are mined.
LiveNext ==
    \/ \E a \in Callers, v \in ValidValues, d \in LockDurations \ {Zero} :
          \E h \in AsEuint64(v) : Stake(a, v, d, h)
    \/ \E a \in Callers : RequestWithdraw(a) /\ UNCHANGED ui
    \/ \E a \in Callers, h \in Handles :
          \E recv \in FinalizeReactions(h, h.pt, GenuineProof(h)) :
              FinalizeWithdraw(a, h, h.pt, GenuineProof(h), recv) /\ UNCHANGED ui
    \/ \E accepts \in BOOLEAN : CallbackReturn(accepts)
    \/ Tick

LiveSpec ==
    /\ LiveInit
    /\ [][LiveNext]_vars
    /\ WF_vars(Tick)
    /\ WF_vars(\E accepts \in BOOLEAN : CallbackReturn(accepts))
    /\ SF_vars(AliceRequests)
    /\ SF_vars(AliceFinalized)

\* ------------------------------------------------------------ a longer horizon
\* time going on for one more block after the last block of Tick, so that
\* every unlock time that is reached is also passed
LateTick ==
    /\ frames = <<>>
    /\ BigLess(now, Big(MaxTime + 1))
    /\ now' = BigAdd(now, One)
    /\ UNCHANGED <<world, frames, last, mints, ui>>

\* the calls that matter for a withdrawal, over the longer horizon
LateNext == LiveNext \/ LateTick

LateSpec == LiveInit /\ [][LateNext]_vars

\* ------------------------------------------------------------ the staking page
\* the connected wallet: an account without code
User == "alice"

\* the object refreshStake builds from what getStake returns
StakeInfo(ret) ==
    [handle |-> ret[1], unlockTimestamp |-> ret[2],
     active |-> ret[3], withdrawRequested |-> ret[4]]

\* refreshStake: read getStake(address) and store it with setStakeInfo
RefreshStake(u) == [u EXCEPT !.stakeInfo = <<StakeInfo(GetStake(Snapshot, User))>>]

\* the effect that runs refreshStake when the page gets its address (the page
\* is loaded, the wallet connected or the account switched)
Connect ==
    /\ ui.pc = "idle"
    /\ ui' = RefreshStake(ui)
    /\ UNCHANGED <<world, now, frames, last, mints>>

\* the request step is taken when the cached position is not yet requested
FirstStep(info) == IF info.withdrawRequested THEN "decrypt" ELSE "request"

\* catch and finally: the status message is set and isBusy goes back to false;
\* stakeInfo is left as it was
Settled(u) == [u EXCEPT !.isBusy = FALSE, !.pc = "idle"]

\* the "Withdraw + Mint" button (enabled unless isBusy or no active cached
\* stake) starts handleWithdraw, which sets isBusy and goes on from the
\* cached stakeInfo
HandleWithdraw ==
    /\ ui.pc = "idle"
    /\ ~ui.isBusy
    /\ ui.stakeInfo # <<>>
    /\ ui.stakeInfo[1].active
    /\ ui' = [ui EXCEPT !.isBusy = TRUE, !.pc = FirstStep(ui.stakeInfo[1])]
    /\ UNCHANGED <<world, now, frames, last, mints>>

\* await stakingContract.requestWithdraw(); await requestTx.wait(): a revert
\* of the call is thrown into the catch block
SendRequest ==
    /\ ui.pc = "request"
    /\ RequestWithdraw(User)
    /\ ui' = IF last'.err = "ok" THEN [ui EXCEPT !.pc = "decrypt"] ELSE Settled(ui)

\* await instance.publicDecrypt([stakeInfo.handle]) returns the clear amount
\* and the proof of the cached handle
PublicDecrypt ==
    /\ ui.pc = "decrypt"
    /\ ui' = [ui EXCEPT !.pc = "finalize"]
    /\ UNCHANGED <<world, now, frames, last, mints>>

\* await stakingContract.finalizeWithdraw(stakeInfo.handle, clearAmount,
\* decrypted.decryptionProof); await finalizeTx.wait()
SendFinalize ==
    /\ ui.pc = "finalize"
    /\ LET h == ui.stakeInfo[1].handle
       IN  \E recv \in FinalizeReactions(h, h.pt, GenuineProof(h)) :
               FinalizeWithdraw(User, h, h.pt, GenuineProof(h), recv)
    /\ ui' = IF last'.err = "ok" THEN [ui EXCEPT !.pc = "refresh"] ELSE Settled(ui)

\* await refreshStake(); await refreshReward(); then finally
Refreshed ==
    /\ ui.pc = "refresh"
    /\ ui' = Settled(RefreshStake(ui))
    /\ UNCHANGED <<world, now, frames, last, mints>>

\* an awaited call rejects without anything reaching the ledger (the wallet
\* refuses to sign, the RPC node or the decryption relayer cannot be reached,
\* the response lacks the clear amount): catch, then finally
Throws ==
    /\ ui.pc \in {"request", "decrypt", "finalize", "refresh"}
    /\ ui' = Settled(ui)
    /\ UNCHANGED <<world, now, frames, last, mints>>

\* The page of one staker and the ledger behind it: the staker stakes (with
\* valid inputs), the page loads the position, and the withdraw button is
\* pressed.  Blocks keep coming, the button is pressed again whenever it can
\* be, and each awaited call of a running handler is answered again and again
\* until it goes through.
UiNext ==
    \/ \E v \in ValidValues, d \in LockDurations \ {Zero} :
          \E h \in AsEuint64(v) : Stake(User, v, d, h)
    \/ Connect
    \/ HandleWithdraw
    \/ SendRequest
    \/ PublicDecrypt
    \/ SendFinalize
    \/ Refreshed
    \/ Throws
    \/ Tick

UiSpec ==
    /\ LiveInit
    /\ [][UiNext]_vars
    /\ WF_vars(Tick)
    /\ SF_vars(HandleWithdraw)
    /\ SF_vars(SendRequest)
    /\ SF_vars(PublicDecrypt)
    /\ SF_vars(SendFinalize)
    /\ SF_vars(Refreshed)

\* this step ends a finalizeWithdraw(h, ...) that pays staker, with outcome err
FinalizeEnds(staker, h, err) ==
    \/ /\ Len(frames') = Len(frames)
       /\ last' = Call("finalizeWithdraw", err)
       /\ staker = withdrawRequests[h]
       /\ \E sender \in Accounts, c \in ClearAmounts, proof \in ProofsFor(h) :
              IsFinalize(sender, h, c, proof)
    \/ /\ Len(frames') < Len(frames)
       /\ last' = Call("finalizeWithdraw", err)
       /\ staker = frames[Len(frames)].staker
       /\ h = frames[Len(frames)].amount

\* C4: a call that fails leaves the whole state as it was when the call was
\* entered; after a finalizeWithdraw that failed in its payout or in its mint
\* the position is still REQUESTED, its index entry is still there, and the
\* same call can succeed later.
C4_ErrorAtomicity ==
    /\ [][(last'.err \notin {"ok", "callback"} /\ Len(frames') = Len(frames)) =>
              UNCHANGED storage]_vars
    /\ [][Len(frames') < Len(frames) /\ last'.err # "ok" =>
              storage' = StorageOf(frames[Len(frames)].saved)]_vars
    /\ [][(last'.op = "finalizeWithdraw" /\ last'.err \in {"TransferFailed", "Unauthorized"}) =>
            \A staker \in Accounts, h \in Handles :
                FinalizeEnds(staker, h, last'.err) =>
                    /\ stakes'[staker].active
                    /\ stakes'[staker].withdrawRequested
                    /\ withdrawRequests'[h] = staker
                    /\ FinalizeError(h, h.pt, GenuineProof(h))' = "ok"]_vars

C4_Witness ==
    /\ frames = <<>>
    /\ last = Call("finalizeWithdraw", "Unauthorized")
    /\ \E a \in Accounts :
          stakes[a].withdrawRequested /\ withdrawRequests[stakes[a].amount] = a

\* C5 as stated: after a finalizeWithdraw whose transfer failed the position is
\* gone and the handle is no longer in the pending index.
C5_Stranded ==
    [][last' = Call("finalizeWithdraw", "TransferFailed") =>
          \A staker \in Accounts, h \in Handles :
              FinalizeEnds(staker, h, "TransferFailed") =>
                  /\ ~stakes'[staker].active
                  /\ withdrawRequests'[h] = ZERO]_vars

\* C5, amended: when the transfer fails the call reverts and the deletes are
\* rolled back with it: the position is REQUESTED with its handle, the handle
\* is in the pending index, the ledger holds the deposit, and a later
\* finalizeWithdraw for the handle passes every check again.
C5_RolledBack ==
    [][last' = Call("finalizeWithdraw", "TransferFailed") =>
          \A staker \in Accounts, h \in Handles :
              FinalizeEnds(staker, h, "TransferFailed") =>
                  /\ stakes'[staker] = [amount |-> h,
                                        unlockTimestamp |-> stakes'[staker].unlockTimestamp,
                                        active |-> TRUE, withdrawRequested |-> TRUE]
                  /\ withdrawRequests'[h] = staker
                  /\ BigLeq(h.pt, balance'[LEDGER])
                  /\ BigLeq(stakes'[staker].unlockTimestamp, now')
                  /\ FinalizeError(h, h.pt, GenuineProof(h))' = "ok"]_vars

C5_Witness ==
    /\ frames = <<>>
    /\ last = Call("finalizeWithdraw", "TransferFailed")
    /\ \E a \in Contracts :
          /\ stakes[a].withdrawRequested
          /\ withdrawRequests[stakes[a].amount] = a
          /\ BigLeq(stakes[a].amount.pt, balance[LEDGER])

\* this step is the settle step of a finalizeWithdraw(h, ...) that pays staker:
\* the checks have passed and the call goes on to the payout
SettleStep ==
    /\ last'.op = "finalizeWithdraw"
    /\ Len(frames') = Len(frames) + 1 \/ (Len(frames') = Len(frames) /\ last'.err = "ok")

FinalizeSettles(sender, staker, h, c) ==
    /\ staker = withdrawRequests[h]
    /\ IsFinalize(sender, h, c, GenuineProof(h))

C7_PayoutToStaker ==
    [][SettleStep =>
          \A sender \in Accounts, staker \in Accounts, h \in Handles :
              FinalizeSettles(sender, staker, h, h.pt) =>
                  /\ balance' = [balance EXCEPT ![LEDGER] = BigSub(@, h.pt),
                                                ![staker] = BigAdd(@, h.pt)]
                  /\ (sender # staker => balance'[sender] = balance[sender])]_vars

C7_Witness ==
    /\ frames # <<>>
    /\ last = Call("finalizeWithdraw", "callback")
    /\ frames[1].sender # frames[1].staker
    /\ balance[frames[1].staker] =
          BigAdd(frames[1].saved.balance[frames[1].staker], frames[1].clearAmount)
    /\ balance[frames[1].sender] = frames[1].saved.balance[frames[1].sender]

\* r is the floor of c * 1000 * 10^6 / 10^18, stated by multiplication only
RewardRate == BigMul(Big(1000), BigPow(Big(10), 6))

IsRewardFloor(c, r) ==
    /\ BigLeq(BigMul(r, WEI_PER_ETH), BigMul(c, RewardRate))
    /\ BigLess(BigMul(c, RewardRate), BigMul(BigAdd(r, One), WEI_PER_ETH))

\* c * 10^9 / 10^18 is c / 10^9: c without its nine low decimal digits
WholeGwei(c) == IF Len(c) <= 3 THEN Zero ELSE SubSeq(c, 4, Len(c))

\* for every clear amount, the one r that is the floor (none if WholeGwei is not)
RewardFloors == [c \in ClearAmounts |-> {r \in {WholeGwei(c)} : IsRewardFloor(c, r)}]

\* C8: a finalizeWithdraw that succeeds for the clear amount c mints
\* floor(c * 1000 * 10^6 / 10^18) reward units to the staker and to nobody else.
C8_RewardFormula ==
    [][last' = Call("finalizeWithdraw", "ok") =>
          \A staker \in Accounts, h \in Handles :
              FinalizeEnds(staker, h, "ok") =>
                  /\ BigLeq(rewards[staker], rewards'[staker])
                  /\ BigSub(rewards'[staker], rewards[staker]) \in RewardFloors[h.pt]
                  /\ \A a \in Accounts \ {staker} : rewards'[a] = rewards[a]]_vars

C8_Witness ==
    /\ last = Call("finalizeWithdraw", "ok")
    /\ \E a \in Accounts :
          /\ rewards[a] = <<73, 744, 446, 18>>  \* 18446744073, least significant limb first
          /\ \A b \in Accounts \ {a} : rewards[b] = Zero

\* C9: a handle is settled at most once per request: a successful
\* finalizeWithdraw clears its index entry, the entry comes back only through
\* a new successful requestWithdraw (or the revert of the settlement itself),
\* and a finalizeWithdraw for a handle without an entry fails with
\* InvalidWithdrawRequest and changes nothing.
C9_NoDoubleSettlement ==
    /\ [][SettleStep =>
            \A sender \in Accounts, staker \in Accounts, h \in Handles :
                FinalizeSettles(sender, staker, h, h.pt) => withdrawRequests'[h] = ZERO]_vars
    /\ [][withdrawRequests' # withdrawRequests =>
          \A h \in Handles :
            (withdrawRequests[h] = ZERO /\ withdrawRequests'[h] # ZERO) =>
                \/ last' = Call("requestWithdraw", "ok")
                \/ Len(frames') < Len(frames) /\ last'.err # "ok"]_vars
    /\ [][(last'.op = "finalizeWithdraw" /\ Len(frames') = Len(frames)) =>
            \/ last'.err = "InvalidWithdrawRequest" /\ UNCHANGED storage
            \/ \A h \in Handles :
                   withdrawRequests[h] # ZERO
                       \/ \A sender \in Accounts, c \in ClearAmounts, proof \in ProofsFor(h) :
                              ~IsFinalize(sender, h, c, proof)]_vars

C9_Witness ==
    /\ last = Call("finalizeWithdraw", "InvalidWithdrawRequest")
    /\ frames = <<>>
    /\ \A h \in Handles : withdrawRequests[h] = ZERO
    /\ \E a \in Accounts : rewards[a] # Zero /\ ~stakes[a].active

\* C10: finalizeWithdraw with a handle that has no entry in the pending index
\* always fails with InvalidWithdrawRequest, whatever clear amount and proof
\* come with it, and changes no state: the lookup precedes the proof check.
C10_UnknownHandle ==
    /\ [](\A h \in HandleInputs :
            withdrawRequests[h] = ZERO =>
                \A c \in ClearAmounts, proof \in ProofsFor(h) :
                    FinalizeError(h, c, proof) = "InvalidWithdrawRequest")
    /\ [][(last'.op = "finalizeWithdraw" /\ Len(frames') = Len(frames)) =>
            \/ last'.err = "InvalidWithdrawRequest" /\ UNCHANGED world
            \/ \A h \in HandleInputs :
                   withdrawRequests[h] = ZERO =>
                       \A sender \in Accounts, c \in ClearAmounts, proof \in ProofsFor(h) :
                           ~IsFinalize(sender, h, c, proof)]_vars

C10_Witness ==
    /\ last = Call("finalizeWithdraw", "InvalidWithdrawRequest")
    /\ \A h \in HandleInputs : withdrawRequests[h] = ZERO
    /\ \E a \in Accounts : stakes[a].active /\ ~stakes[a].withdrawRequested
    /\ \A a \in Accounts : rewards[a] = Zero

\* C11: in every reachable state the pending index maps handle h to account a
\* exactly when a's position is active, withdrawRequested and stores h; so
\* there are as many entries as REQUESTED positions, and the position check of
\* finalizeWithdraw (active and withdrawRequested) cannot fail for a handle
\* that has an entry.
C11_PendingIndex ==
    /\ \A h \in Handles, a \in Accounts :
          withdrawRequests[h] = a <=>
              (stakes[a].active /\ stakes[a].withdrawRequested /\ stakes[a].amount = h)
    /\ \A h \in HandleInputs : withdrawRequests[h] \in Accounts \cup {ZERO}
    /\ withdrawRequests[ZeroHandle] = ZERO
    /\ Cardinality({h \in HandleInputs : withdrawRequests[h] # ZERO})
          = Cardinality({a \in Accounts : stakes[a].active /\ stakes[a].withdrawRequested})
    /\ \A h \in HandleInputs :
          withdrawRequests[h] # ZERO =>
              /\ stakes[withdrawRequests[h]].active
              /\ stakes[withdrawRequests[h]].withdrawRequested

C11_Witness ==
    /\ frames = <<>>
    /\ Cardinality({h \in HandleInputs : withdrawRequests[h] # ZERO}) = 2
    /\ \A a \in Accounts : withdrawRequests[stakes[a].amount] = a

\* C12: in every reachable state, for every account, withdrawRequested implies
\* active, and a position that is not active is zero in every field (zero
\* handle, unlockTimestamp 0, withdrawRequested false): getStake reports the
\* same for an account that never staked and for one whose stake was settled.
C12_WellFormed ==
    \A a \in Accounts :
        /\ stakes[a].withdrawRequested => stakes[a].active
        /\ ~stakes[a].active => stakes[a] = EmptyPosition

C12_Witness ==
    /\ last = Call("finalizeWithdraw", "ok")
    /\ \E a \in Accounts :
          /\ stakes[a] = EmptyPosition
          /\ rewards[a] # Zero
          /\ \E b \in Accounts \ {a} :
                stakes[b] = EmptyPosition /\ balance[b] = InitialBalance /\ rewards[b] = Zero

\* C13: the position of an account changes only NONE -> ACTIVE by its own
\* successful stake, ACTIVE -> REQUESTED by its own successful requestWithdraw
\* and REQUESTED -> NONE by the settle step of a finalizeWithdraw for its
\* handle.  (A finalizeWithdraw that reverts after its payout callback ran
\* puts the positions back as they were when it was entered: everything done
\* since then is undone, which is no change of the position.)
C13_StateMachine ==
    [][stakes' # stakes =>
          IF Len(frames') < Len(frames) /\ last'.err # "ok"
          THEN stakes' = frames[Len(frames)].saved.stakes
          ELSE \A a \in Accounts :
                 stakes'[a] # stakes[a] =>
                    \/ /\ PositionState(stakes[a]) = "NONE"
                       /\ PositionState(stakes'[a]) = "ACTIVE"
                       /\ last' = Call("stake", "ok")
                       /\ \E v \in ValidValues, d \in LockDurations, h \in Handles :
                             Stake(a, v, d, h)
                    \/ /\ PositionState(stakes[a]) = "ACTIVE"
                       /\ PositionState(stakes'[a]) = "REQUESTED"
                       /\ last' = Call("requestWithdraw", "ok")
                       /\ RequestWithdraw(a)
                    \/ /\ PositionState(stakes[a]) = "REQUESTED"
                       /\ PositionState(stakes'[a]) = "NONE"
                       /\ SettleStep
                       /\ \E sender \in Accounts :
                             FinalizeSettles(sender, a, stakes[a].amount, stakes[a].amount.pt)]_vars

C13_Witness ==
    /\ frames = <<>>
    /\ last = Call("finalizeWithdraw", "ok")
    /\ \E a \in Accounts :
          /\ PositionState(stakes[a]) = "NONE"
          /\ rewards[a] # Zero
          /\ \E b \in Accounts \ {a} : PositionState(stakes[b]) = "REQUESTED"

\* C14: after a successful stake(lockDuration) with deposit value v at time t,
\* getStake(caller) returns the handle that encrypts v, unlockTime = t +
\* lockDuration, active = true and withdrawRequested = false; the ledger's
\* native balance has grown by v and the pending index is unchanged.
C14_StakePostcondition ==
    [][last' = Call("stake", "ok") =>
          \A a \in Accounts, v \in ValidValues, d \in LockDurations, h \in Handles :
              Stake(a, v, d, h) =>
                  /\ h \in AsEuint64(v)
                  /\ h.pt = v
                  /\ GetStake(Snapshot, a)' = <<h, BigAdd(now, d), TRUE, FALSE>>
                  /\ balance'[LEDGER] = BigAdd(balance[LEDGER], v)
                  /\ balance'[a] = BigSub(balance[a], v)
                  /\ withdrawRequests' = withdrawRequests]_vars

C14_Witness ==
    /\ last = Call("stake", "ok")
    /\ \E a \in Accounts :
          /\ GetStake(Snapshot, a)[3]
          /\ ~GetStake(Snapshot, a)[4]
          /\ GetStake(Snapshot, a)[1].pt = UINT64_MAX
          /\ GetStake(Snapshot, a)[2] = BigAdd(now, One)
          /\ balance[LEDGER] = UINT64_MAX

\* C15: requestWithdraw by an account with an active position, at a time
\* strictly before the position's unlockTime, fails with WithdrawNotReady and
\* changes nothing.  No other error is possible because time never goes back:
\* a position whose withdrawal is requested has its unlockTime behind it.
C15_NotReady ==
    [][/\ BigLeq(now, now')
       /\ \A a \in Accounts :
             stakes'[a].withdrawRequested => BigLeq(stakes'[a].unlockTimestamp, now')
       /\ last'.op = "requestWithdraw" =>
             \A a \in Accounts :
                 (/\ stakes[a].active
                  /\ BigLess(now, stakes[a].unlockTimestamp)) =>
                     \/ /\ last'.err = "WithdrawNotReady"
                        /\ ~CanWithdraw(Snapshot, now, a)
                        /\ UNCHANGED world
                     \/ ~RequestWithdraw(a)]_vars

C15_Witness ==
    /\ last = Call("requestWithdraw", "WithdrawNotReady")
    /\ now # Zero
    /\ \E a \in Accounts :
          /\ PositionState(stakes[a]) = "ACTIVE"
          /\ BigLess(now, stakes[a].unlockTimestamp)
          /\ \E b \in Accounts \ {a} : PositionState(stakes[b]) = "REQUESTED"

\* C16 (as claimed): requestWithdraw by an account whose position is active
\* and not yet requested, at or after unlockTime, always succeeds, setting
\* withdrawRequested and inserting (handle -> caller) in the pending index;
\* a second requestWithdraw while REQUESTED fails with
\* WithdrawAlreadyRequested.
C16_AlwaysSucceeds ==
    [][last'.op = "requestWithdraw" =>
          \A a \in Accounts :
              \/ ~stakes[a].active
              \/ ~RequestWithdraw(a)
              \/ /\ CanWithdraw(Snapshot, now, a)
                 /\ last'.err = "ok"
                 /\ stakes'[a].withdrawRequested
                 /\ withdrawRequests'[stakes[a].amount] = a
              \/ /\ PositionState(stakes[a]) = "REQUESTED"
                 /\ last'.err = "WithdrawAlreadyRequested"
              \/ BigLess(now, stakes[a].unlockTimestamp)]_vars

\* C16 (amended): such a requestWithdraw succeeds unless the pending index
\* already holds the position's handle, in which case it fails with
\* InvalidWithdrawRequest and changes nothing.  On success it sets
\* withdrawRequested, inserts (handle -> caller) in the pending index and
\* changes nothing else.  A second requestWithdraw while the position is
\* REQUESTED fails with WithdrawAlreadyRequested and changes nothing.
C16_SucceedsUnlessHeld ==
    [][last'.op = "requestWithdraw" =>
          \A a \in Accounts :
              \/ ~stakes[a].active
              \/ ~RequestWithdraw(a)
              \/ /\ CanWithdraw(Snapshot, now, a)
                 /\ withdrawRequests[stakes[a].amount] = ZERO
                 /\ last'.err = "ok"
                 /\ stakes' = [stakes EXCEPT ![a].withdrawRequested = TRUE]
                 /\ withdrawRequests' = [withdrawRequests EXCEPT ![stakes[a].amount] = a]
                 /\ UNCHANGED <<balance, rewards, owner, minter, now>>
              \/ /\ CanWithdraw(Snapshot, now, a)
                 /\ withdrawRequests[stakes[a].amount] \in Accounts \ {a}
                 /\ last'.err = "InvalidWithdrawRequest"
                 /\ UNCHANGED world
              \/ /\ PositionState(stakes[a]) = "REQUESTED"
                 /\ last'.err = "WithdrawAlreadyRequested"
                 /\ UNCHANGED world
              \/ BigLess(now, stakes[a].unlockTimestamp)]_vars

C16_Witness ==
    /\ last = Call("requestWithdraw", "WithdrawAlreadyRequested")
    /\ \E a \in Accounts :
          /\ PositionState(stakes[a]) = "REQUESTED"
          /\ withdrawRequests[stakes[a].amount] = a
          /\ \E b \in Accounts \ {a} :
                /\ CanWithdraw(Snapshot, now, b)
                /\ stakes[b].amount = stakes[a].amount

\* C17: when two accounts hold the same handle, a requestWithdraw whose handle
\* is already in the pending index fails with InvalidWithdrawRequest, leaves
\* the entry pointing at the first requester and leaves the caller's position
\* ACTIVE with withdrawRequested = false.  No step makes a pending entry point
\* at another account: an entry stays with its requester until it is removed.
C17_CollisionDefence ==
    [][/\ \A h \in Handles :
             withdrawRequests[h] # ZERO =>
                 /\ withdrawRequests'[h] \in {withdrawRequests[h], ZERO}
                 /\ PositionState(stakes[withdrawRequests[h]]) = "REQUESTED"
                 /\ stakes[withdrawRequests[h]].amount = h
       /\ last'.op = "requestWithdraw" =>
             \A a \in Accounts :
                 (/\ CanWithdraw(Snapshot, now, a)
                  /\ withdrawRequests[stakes[a].amount] # ZERO) =>
                     \/ /\ last'.err = "InvalidWithdrawRequest"
                        /\ withdrawRequests' = withdrawRequests
                        /\ stakes' = stakes
                        /\ PositionState(stakes'[a]) = "ACTIVE"
                        /\ UNCHANGED world
                     \/ ~RequestWithdraw(a)]_vars

C17_Witness ==
    /\ last = Call("requestWithdraw", "InvalidWithdrawRequest")
    /\ \E a \in Accounts :
          /\ PositionState(stakes[a]) = "ACTIVE"
          /\ withdrawRequests[stakes[a].amount] \in Accounts \ {a}
          /\ stakes[withdrawRequests[stakes[a].amount]].withdrawRequested

\* C18: a stake or requestWithdraw by account a changes the position of no
\* other account, and a requestWithdraw changes no pending entry but the one
\* of the caller's handle; a finalizeWithdraw for handle h changes only the
\* position of the account the index maps h to, and only the entry of h.
\* When the payout call of a finalizeWithdraw returns, nothing more is changed
\* in the positions and the index, and when the call reverts they are as they
\* were at its entry.  Two accounts that are REQUESTED at the same time each
\* have their own position and their own pending entry.
C18_AccountIsolation ==
    [][/\ \A a \in Accounts :
             PositionState(stakes'[a]) = "REQUESTED" =>
                 withdrawRequests'[stakes'[a].amount] = a
       /\ (last'.op = "stake" /\ stakes' # stakes) =>
             \A a \in Accounts, b \in Accounts :
                 \/ a = b
                 \/ stakes'[b] = stakes[b] /\ withdrawRequests' = withdrawRequests
                 \/ ~\E v \in ValidValues, d \in LockDurations, h \in Handles :
                        Stake(a, v, d, h)
       /\ (last'.op = "requestWithdraw" /\ world' # world) =>
             \A a \in Accounts, b \in Accounts :
                 \/ a = b
                 \/ /\ stakes'[b] = stakes[b]
                    /\ \A h \in HandleInputs \ {stakes[a].amount} :
                          withdrawRequests'[h] = withdrawRequests[h]
                 \/ ~RequestWithdraw(a)
       /\ SettleStep =>
             \A h \in Handles, b \in Accounts :
                 \/ b = withdrawRequests[h]
                 \/ /\ stakes'[b] = stakes[b]
                    /\ \A g \in HandleInputs \ {h} :
                          withdrawRequests'[g] = withdrawRequests[g]
                 \/ ~\E sender \in Accounts :
                        FinalizeSettles(sender, withdrawRequests[h], h, h.pt)
       /\ (last'.op = "finalizeWithdraw" /\ Len(frames') < Len(frames)) =>
             IF last'.err = "ok"
             THEN stakes' = stakes /\ withdrawRequests' = withdrawRequests
             ELSE /\ stakes' = frames[Len(frames)].saved.stakes
                  /\ withdrawRequests' = frames[Len(frames)].saved.withdrawRequests]_vars

C18_Witness ==
    /\ last = Call("requestWithdraw", "ok")
    /\ frames = <<>>
    /\ \A a \in Accounts :
          /\ PositionState(stakes[a]) = "REQUESTED"
          /\ withdrawRequests[stakes[a].amount] = a
          /\ BigLeq(stakes[a].unlockTimestamp, now)
    /\ \E a \in Accounts, b \in Accounts :
          /\ stakes[a].amount # stakes[b].amount
          /\ stakes[a].unlockTimestamp = stakes[b].unlockTimestamp

\* C19: a finalizeWithdraw for a pending handle with a clearAmount/proof pair
\* that the verifier rejects fails with no state change: the position stays
\* REQUESTED, the entry stays, nothing is transferred or minted.  Afterwards
\* the valid pair still passes every check of finalizeWithdraw and the ledger
\* still holds the payout.  Every settlement of a pending handle is with the
\* clearAmount the verifier attests for that handle, and pays that amount.
C19_InvalidProof ==
    [][last'.op = "finalizeWithdraw" =>
          /\ last'.err = "InvalidProof" =>
                \A h \in Handles :
                    \/ withdrawRequests[h] = ZERO
                    \/ /\ frames' = frames
                       /\ UNCHANGED world
                       /\ PositionState(stakes'[withdrawRequests'[h]]) = "REQUESTED"
                       /\ FinalizeError(h, h.pt, GenuineProof(h))' = "ok"
                       /\ BigLeq(h.pt, balance'[LEDGER])
                    \/ ~\E sender \in Accounts, c \in ClearAmounts, proof \in ProofsFor(h) :
                           /\ ~CheckSignatures(h, c, proof)
                           /\ IsFinalize(sender, h, c, proof)
          /\ \A h \in Handles :
                (withdrawRequests[h] # ZERO) =>
                    \A c \in ClearAmounts, proof \in ProofsFor(h) :
                        \/ CheckSignatures(h, c, proof) /\ c = h.pt
                        \/ last'.err = "InvalidProof"
                        \/ ~\E sender \in Accounts : IsFinalize(sender, h, c, proof)
          /\ SettleStep =>
                \A h \in Handles :
                    (withdrawRequests[h] # ZERO /\ withdrawRequests'[h] = ZERO) =>
                        balance'[LEDGER] = BigSub(balance[LEDGER], h.pt)]_vars

C19_Witness ==
    /\ last = Call("finalizeWithdraw", "InvalidProof")
    /\ frames = <<>>
    /\ minter = LEDGER
    /\ \E h \in Handles :
          /\ withdrawRequests[h] # ZERO
          /\ PositionState(stakes[withdrawRequests[h]]) = "REQUESTED"
          /\ FinalizeError(h, h.pt, GenuineProof(h)) = "ok"
          /\ balance[LEDGER] = h.pt

\* C20: stake with deposit value 0 or above 2^64 - 1 fails with InvalidAmount
\* whatever the duration and the caller's position; with a valid value and
\* lockDuration = 0 it fails with InvalidDuration whatever the caller's
\* position; with valid inputs and an active position it fails with
\* ActiveStakeExists.  None of these calls changes any state.
C20_StakeValidation ==
    [][(last'.op = "stake" /\ last'.err # "ok") =>
          /\ UNCHANGED world
          /\ \A v \in StakeValues, d \in LockDurations :
                LET expected == IF v = Zero \/ ~BigLeq(v, UINT64_MAX) THEN {"InvalidAmount"}
                                ELSE IF d = Zero THEN {"InvalidDuration"}
                                ELSE {"ActiveStakeExists", "Panic"}
                IN  \/ last'.err \in expected
                    \/ ~\E a \in Accounts : Stake(a, v, d, ZeroHandle)
          /\ last'.err = "Panic" =>
                \A a \in Accounts :
                    \/ ~stakes[a].active
                    \/ ~\E v \in ValidValues, d \in LockDurations \ {Zero} :
                           Stake(a, v, d, ZeroHandle)]_vars

C20_Witness ==
    /\ last = Call("stake", "InvalidDuration")
    /\ \A a \in Accounts : PositionState(stakes[a]) # "NONE"

\* C21: a stake with a deposit value in 1..2^64-1 and a lockDuration in
\* 1..2^64-1 by a caller with no active position succeeds at every time;
\* equivalently every failing stake fails with InvalidAmount, InvalidDuration
\* or ActiveStakeExists.
C21_StakeTotal ==
    [][last'.op = "stake" =>
          /\ last'.err \in {"ok", "InvalidAmount", "InvalidDuration", "ActiveStakeExists"}
          /\ \A a \in Accounts, v \in ValidValues, d \in LockDurations \ {Zero} :
                \/ stakes[a].active
                \/ last'.err = "ok"
                \/ ~Stake(a, v, d, ZeroHandle)]_vars

\* C22: canWithdraw(account) returns true exactly when the account's position
\* is active, now >= unlockTime and withdrawRequested is false, which is
\* exactly when a requestWithdraw by the account passes its three position
\* checks; it returns false for an account with no position.  getStake
\* returns the four stored fields.  Neither call changes any state.
C22_Views ==
    [][last'.op \in {"canWithdraw", "getStake"} =>
          \/ /\ UNCHANGED <<world, now, frames>>
             /\ last'.op = "canWithdraw" =>
                   /\ last'.ret <=>
                         /\ PositionState(stakes[last'.staker]) = "ACTIVE"
                         /\ ~BigLess(now, stakes[last'.staker].unlockTimestamp)
                   /\ stakes[last'.staker] = EmptyPosition => ~last'.ret
                   /\ last'.ret <=>
                         RequestWithdrawError(last'.staker) \in {"ok", "InvalidWithdrawRequest"}
             /\ last'.op = "getStake" =>
                   /\ last'.ret[1] = stakes[last'.staker].amount
                   /\ last'.ret[2] = stakes[last'.staker].unlockTimestamp
                   /\ last'.ret[3] = stakes[last'.staker].active
                   /\ last'.ret[4] = stakes[last'.staker].withdrawRequested
          \/ ~\E a \in Accounts :
                 \/ GetStakeCall(a, last'.staker)
                 \/ CanWithdrawCall(a, last'.staker)]_vars

C22_Witness ==
    /\ last.op = "canWithdraw"
    /\ last.ret
    /\ PositionState(stakes[last.staker]) = "ACTIVE"
    /\ \E b \in Accounts \ {last.staker} : PositionState(stakes[b]) = "REQUESTED"

\* C23: the reward is monotonic in the clear amount (a < b gives
\* reward(a) <= reward(b)), reward(0) = 0, and the reward of one amount is one
\* value: equal amounts get equal rewards.
C23_RewardMonotonic ==
    last.op = "reward" =>
        /\ BigLess(last.a, last.b) => BigLeq(last.ra, last.rb)
        /\ last.a = last.b => last.ra = last.rb
        /\ last.a = Zero => last.ra = Zero
        /\ IsRewardFloor(last.a, last.ra)

C23_Witness ==
    /\ last.op = "reward"
    /\ last.a = <<999, 999, 999, 1>>
    /\ last.b = <<0, 0, 0, 2>>
    /\ last.ra = One
    /\ last.rb = <<2>>

\* C24: RewardCoin.mint succeeds only for the current minter: a call by any
\* other account fails with Unauthorized and changes no balance, and while no
\* minter is set nobody can mint.  Minter and owner are changed only by the
\* current owner: setMinter and transferOwnership by another account fail with
\* Unauthorized, a zero address is rejected with InvalidAddress, and both
\* failures leave minter and owner unchanged.
C24_MintAuthorization ==
    [][/\ rewards' # rewards =>
             /\ last' = Call("mint", "ok")
             /\ minter # ZERO
             /\ \E to \in Accounts, amt \in MintAmounts : Mint(minter, to, amt)
       /\ minter' # minter =>
             /\ last' = Call("setMinter", "ok")
             /\ minter' # ZERO
             /\ SetMinter(owner, minter')
       /\ owner' # owner =>
             /\ last' = Call("transferOwnership", "ok")
             /\ owner' # ZERO
             /\ TransferOwnership(owner, owner')
       /\ last'.op = "mint" =>
             \A sender \in Accounts, to \in Accounts \cup {ZERO}, amt \in MintAmounts :
                 \/ ~Mint(sender, to, amt)
                 \/ sender = minter /\ last'.err = (IF to = ZERO THEN "InvalidAddress" ELSE "ok")
                 \/ sender # minter /\ last'.err = "Unauthorized" /\ UNCHANGED world
       /\ last'.op = "setMinter" =>
             \A sender \in Accounts, m \in Addresses :
                 \/ ~SetMinter(sender, m)
                 \/ sender = owner /\ m # ZERO /\ last'.err = "ok" /\ minter' = m
                 \/ sender = owner /\ m = ZERO /\ last'.err = "InvalidAddress" /\ UNCHANGED world
                 \/ sender # owner /\ last'.err = "Unauthorized" /\ UNCHANGED world
       /\ last'.op = "transferOwnership" =>
             \A sender \in Accounts, o \in Addresses :
                 \/ ~TransferOwnership(sender, o)
                 \/ sender = owner /\ o # ZERO /\ last'.err = "ok" /\ owner' = o
                 \/ sender = owner /\ o = ZERO /\ last'.err = "InvalidAddress" /\ UNCHANGED world
                 \/ sender # owner /\ last'.err = "Unauthorized" /\ UNCHANGED world]_vars

C24_Witness ==
    /\ last = Call("mint", "Unauthorized")
    /\ minter \in Accounts
    /\ owner \in Accounts \ {"alice", minter}

\* C25: with the ledger as RewardCoin's minter, the reward balance of an
\* account changes only in the step on which a finalizeWithdraw that settles
\* that account's position succeeds; stake, requestWithdraw and every failed
\* call leave all reward balances as they were (a finalizeWithdraw that
\* reverts puts them back as they were at its entry).
C25_MintedAtSettlement ==
    [][rewards' # rewards =>
          IF Len(frames') < Len(frames) /\ last'.err # "ok"
          THEN rewards' = frames[Len(frames)].saved.rewards
          ELSE /\ minter = LEDGER
               /\ last' = Call("finalizeWithdraw", "ok")
               /\ \E staker \in Accounts :
                     /\ BigLess(rewards[staker], rewards'[staker])
                     /\ \A a \in Accounts \ {staker} : rewards'[a] = rewards[a]
                     /\ \E h \in Handles : FinalizeEnds(staker, h, "ok")]_vars

C25_Witness ==
    /\ last = Call("finalizeWithdraw", "ok")
    /\ minter = LEDGER
    /\ \E a \in Accounts :
          /\ rewards[a] = RewardAmounts[UINT64_MAX]
          /\ balance[a] = InitialBalance
          /\ \E b \in Accounts \ {a} : stakes[b].active /\ rewards[b] = Zero

\* C26: a native-value transfer to the ledger that selects no operation is
\* rejected with InvalidAmount, for every sender and every value, and leaves
\* the ledger's balance, the sender's balance and all positions unchanged.
C26_ReceiveRejects ==
    [][last'.op = "receive" =>
          \/ /\ last'.err = "InvalidAmount"
             /\ balance' = balance
             /\ stakes' = stakes
             /\ UNCHANGED <<world, now, frames>>
          \/ ~\E a \in Accounts, v \in ReceiveValues : Receive(a, v)]_vars

C26_Witness ==
    /\ last = Call("receive", "InvalidAmount")
    /\ balance[LEDGER] # Zero
    /\ frames # <<>>

\* the sum of the deposit values of the active positions of the accounts in S
RECURSIVE Deposits(_)
Deposits(S) ==
    IF S = {} THEN Zero
    ELSE LET a == CHOOSE x \in S : TRUE
         IN  BigAdd(IF stakes[a].active THEN stakes[a].amount.pt ELSE Zero,
                    Deposits(S \ {a}))

\* C27: the ledger's native balance equals the sum of the deposit values of
\* all active positions (ACTIVE or REQUESTED), between calls and inside payout
\* callbacks, so the ledger holds the payout of every pending handle and no
\* finalizeWithdraw that passed its checks fails for lack of funds.
C27_Solvency ==
    /\ balance[LEDGER] = Deposits(Accounts)
    /\ \A a \in Accounts : stakes[a].active => BigLeq(stakes[a].amount.pt, balance[LEDGER])
    /\ \A h \in Handles : withdrawRequests[h] # ZERO => BigLeq(h.pt, balance[LEDGER])

C27_Witness ==
    /\ last = Call("stake", "ok")
    /\ frames # <<>>
    /\ stakes[frames[1].staker].active
    /\ \A a \in Accounts : stakes[a].active
    /\ balance[LEDGER] = BigAdd(SubGwei, UINT64_MAX)

\* C28: whenever alice, who accepts native value, has an active position (whose
\* unlock time lies within the modelled time), then with the ledger as minter
\* and her requestWithdraw and the finalizeWithdraw for her handle attempted
\* again and again, her position eventually is NONE again with her deposit
\* paid out, whatever the other account does.
C28_WithdrawalLiveness ==
    (/\ stakes["alice"].active
     /\ BigLeq(stakes["alice"].unlockTimestamp, Big(MaxTime)))
        ~> (/\ PositionState(stakes["alice"]) = "NONE"
            /\ unpaid["alice"] = 0)

\* C29: for every clear amount a finalizeWithdraw may carry the product
\* clearAmount * REWARD_PER_ETH fits in 256 bits and the reward is at most
\* 2^64 - 1, so no finalizeWithdraw fails with RewardOverflow (or with an
\* arithmetic panic) and the reward minted is the reward computed.
C29_NoRewardOverflow ==
    [][last'.op = "finalizeWithdraw" =>
          /\ last'.err \notin {"RewardOverflow", "Panic"}
          /\ \A c \in ClearAmounts :
                /\ BigLeq(RewardProducts[c], UINT256_MAX)
                /\ BigLeq(RewardAmounts[c], UINT64_MAX)
          /\ last'.err = "ok" =>
                \A staker \in Accounts, h \in Handles :
                    \/ rewards'[staker] = BigAdd(rewards[staker], RewardAmounts[h.pt])
                    \/ ~FinalizeEnds(staker, h, "ok")]_vars

C29_Witness ==
    /\ last = Call("finalizeWithdraw", "ok")
    /\ \E a \in Accounts :
          /\ rewards[a] = RewardAmount(UINT64_MAX)
          /\ BigLess(rewards[a], UINT64_MAX)
          /\ unminted[a] = 0

\* C30: canWithdraw(a) is false right after a's stake; once canWithdraw(a) is
\* true it stays true until a's own requestWithdraw succeeds, whatever time
\* passes and whatever the other account calls; and while it is true a
\* requestWithdraw by a fails with InvalidWithdrawRequest or not at all.
C30_EligibilityStable ==
    [][\A a \in Accounts :
          /\ (last' = Call("stake", "ok") /\ stakes'[a] # stakes[a]) =>
                /\ ~CanWithdraw(Snapshot, now, a)'
                /\ BigLess(now', stakes'[a].unlockTimestamp)
          /\ CanWithdraw(Snapshot, now, a) =>
                \/ CanWithdraw(Snapshot, now, a)'
                \/ /\ last' = Call("requestWithdraw", "ok")
                   /\ PositionState(stakes'[a]) = "REQUESTED"
                   /\ RequestWithdraw(a)
          /\ (last'.op = "requestWithdraw" /\ CanWithdraw(Snapshot, now, a)) =>
                \/ last'.err \in {"ok", "InvalidWithdrawRequest"}
                \/ ~RequestWithdraw(a)]_vars

C30_Witness ==
    /\ last = Call("requestWithdraw", "InvalidWithdrawRequest")
    /\ \E a \in Accounts :
          /\ CanWithdraw(Snapshot, now, a)
          /\ BigLess(stakes[a].unlockTimestamp, now)

\* C31: once the staker's requestWithdraw is confirmed and the attempt that
\* sent it has ended, further handleWithdraw attempts complete the withdrawal:
\* the position is eventually settled.
C31_RetryCompletes ==
    (stakes[User].withdrawRequested /\ ui.pc = "idle") ~> ~stakes[User].active
====
